---- MODULE Spec2Model ----
(***************************************************************************)
(* Model of src/threads.py: DropboxToThreadsUploader (one posting run per  *)
(* account) and the multi-account driver loop.                             *)
(*                                                                         *)
(* Strings whose characters the code inspects (file names, extensions) are *)
(* tuples of one-character strings, so that lower() and endswith() are     *)
(* computed and not assumed.  Every remote call (token endpoint, Dropbox,  *)
(* Threads, Telegram) is an input: its outcome is drawn from a small set.  *)
(* `log` records, for the current run, every remote call and every         *)
(* send_message call in program order.                                     *)
(***************************************************************************)
EXTENDS Integers, Sequences, FiniteSets, TLC

VARIABLES
    pc,            \* position of the driver / of run() of the current uploader
    idx,           \* driver loop: index into ACCOUNTS of the current account
    account_name,  \* self.account_name
    telegram_bot,  \* self.telegram_bot is not None
    env_token,     \* TELEGRAM_BOT_TOKEN is set in the environment
    folder,        \* remote content of self.dropbox_folder, once it was listed
    caption,       \* run(): caption
    dbx,           \* run(): dbx is bound (authenticate_dropbox returned)
    files,         \* run(): files
    file,          \* run(): file (NoFile before random.choice)
    temp_link,     \* post_to_threads(): temp_link
    success,       \* run(): success ("unset" until post_to_threads returns)
    err,           \* the exception travelling to run()'s except clause
    delivery,      \* what the last send_message call did with its message
    log,           \* calls issued by the current run, in order
    completed,     \* account names whose run() has returned, in order
    caption_in     \* <<schedule file, weekday>> get_caption_from_config just read

vars == <<pc, idx, account_name, telegram_bot, env_token, folder, caption, dbx,
          files, file, temp_link, success, err, delivery, log, completed,
          caption_in>>

(***************************************************************************)
(* Bounds of the model.                                                    *)
(***************************************************************************)
MaxEntries == 2      \* longest folder listing explored

(***************************************************************************)
(* Strings as character tuples.                                            *)
(***************************************************************************)
LowerChar(c) ==
    CASE c = "A" -> "a" [] c = "B" -> "b" [] c = "G" -> "g" [] c = "J" -> "j"
      [] c = "M" -> "m" [] c = "N" -> "n" [] c = "P" -> "p" [] c = "V" -> "v"
      [] c = "O" -> "o" [] c = "E" -> "e" [] c = "T" -> "t" [] c = "X" -> "x"
      [] OTHER -> c

\* str.lower()
lower(s) == [i \in 1..Len(s) |-> LowerChar(s[i])]

\* str.endswith(suffix) for one suffix
endswith1(s, suffix) ==
    /\ Len(s) >= Len(suffix)
    /\ SubSeq(s, Len(s) - Len(suffix) + 1, Len(s)) = suffix

\* str.endswith(tuple_of_suffixes)
endswith(s, suffixes) == \E suffix \in suffixes : endswith1(s, suffix)

ext_mp4  == <<".", "m", "p", "4">>
ext_mov  == <<".", "m", "o", "v">>
ext_jpg  == <<".", "j", "p", "g">>
ext_jpeg == <<".", "j", "p", "e", "g">>
ext_png  == <<".", "p", "n", "g">>

\* list_dropbox_files: valid_exts
valid_exts == {ext_mp4, ext_mov, ext_jpg, ext_jpeg, ext_png}

\* post_to_threads: the suffixes that make a VIDEO
video_exts == {ext_mp4, ext_mov}

(***************************************************************************)
(* The remote folder.  An entry is what files_list_folder returns for one  *)
(* file: its name and its lowercased path (relative to the account's       *)
(* folder, the folder prefix being the same for every entry).              *)
(***************************************************************************)
FileNames ==
    { <<"a", ".", "M", "P", "4">>,
      <<"b", ".", "P", "N", "G">>,
      <<"c", ".", "t", "x", "t">>,
      <<"d", ".", "m", "o", "v">> }

Entry(n) == [name |-> n, path_lower |-> lower(n)]

NoFile == [name |-> <<>>, path_lower |-> <<>>]

\* Dropbox paths are case-insensitive: no two entries share a lowercased path.
Listings ==
    { s \in UNION { [1..n -> FileNames] : n \in 0..MaxEntries } :
        \A i, j \in 1..Len(s) : i # j => lower(s[i]) # lower(s[j]) }

Entries(s) == [i \in 1..Len(s) |-> Entry(s[i])]

\* the filter testing f.name as it is, not its lowercased form
RECURSIVE FilterEligible_caseSensitive(_)
FilterEligible_caseSensitive(entries) ==
    IF entries = <<>> THEN <<>>
    ELSE IF endswith(Head(entries).name, valid_exts)
         THEN <<Head(entries)>> \o FilterEligible_caseSensitive(Tail(entries))
         ELSE FilterEligible_caseSensitive(Tail(entries))

\* [f for f in files if f.name.lower().endswith(valid_exts)]
RECURSIVE FilterEligible(_)
FilterEligible(entries) ==
    IF entries = <<>> THEN <<>>
    ELSE IF endswith(lower(Head(entries).name), valid_exts)
         THEN <<Head(entries)>> \o FilterEligible(Tail(entries))
         ELSE FilterEligible(Tail(entries))

\* the folder after files_delete_v2(path) succeeded
RECURSIVE RemovePath(_, _)
RemovePath(entries, path) ==
    IF entries = <<>> THEN <<>>
    ELSE IF Head(entries).path_lower = path
         THEN RemovePath(Tail(entries), path)
         ELSE <<Head(entries)>> \o RemovePath(Tail(entries), path)

(***************************************************************************)
(* The schedule file and get_caption_from_config.  A parsed JSON value is  *)
(* [t |-> its type, v |-> its content]; a dict's content is a function     *)
(* from its keys to JSON values.  Python's None is the JSON null.          *)
(***************************************************************************)
JNull    == [t |-> "null", v |-> ""]
JStr(s)  == [t |-> "str",  v |-> s]
JList    == [t |-> "list", v |-> ""]
JDict(d) == [t |-> "dict", v |-> d]

\* f"<sparkles> #{self.account_name} <sparkles>"
DefaultCaption(name) == [t |-> "default", v |-> name]

\* an exception raised while evaluating an expression
Raised(e) == [t |-> "raise", v |-> e]

NonDicts == {JNull, JStr("Hello"), JList}

DictsOver(keysets, values) == { JDict(d) : d \in UNION { [ks -> values] : ks \in keysets } }

\* what a "caption" entry holds in the file: a string, or null
CaptionValues == {JNull, JStr("Hello")}

CaptionObjects ==
    DictsOver({{}, {"caption"}, {"tags"}, {"caption", "tags"}}, CaptionValues)

DayTables ==
    DictsOver({{}, {"Monday"}, {"Friday"}}, NonDicts \cup CaptionObjects)

\* what json.load can return for the schedule file of account `name`
ParsedConfigs(name) ==
    NonDicts \cup DictsOver({{}, {name}, {"someone_else"}}, NonDicts \cup DayTables)

\* the schedule file as open()/json.load find it
ScheduleFiles(name) ==
    {Raised("FileNotFoundError"), Raised("JSONDecodeError")} \cup ParsedConfigs(name)

\* datetime.now(self.ist).strftime("%A")
Weekdays == {"Monday", "Tuesday", "Wednesday", "Thursday", "Friday", "Saturday", "Sunday"}

\* obj.get(key, default): only a dict has .get
DictGet(obj, key, default) ==
    IF obj.t = "raise" THEN obj
    ELSE IF obj.t # "dict" THEN Raised("AttributeError")
    ELSE IF key \in DOMAIN obj.v THEN obj.v[key]
    ELSE default

\* get_caption_from_config, given the file's state and today's weekday
get_caption_from_config(name, schedule, today) ==
    LET looked == DictGet(DictGet(DictGet(schedule, name, JDict(<<>>)),
                                  today, JDict(<<>>)),
                          "caption", DefaultCaption(name))
    IN  IF looked.t = "raise" THEN DefaultCaption(name) ELSE looked

(***************************************************************************)
(* The accounts of the driver and the outcomes of the remote calls.        *)
(***************************************************************************)
\* ACCOUNTS: the account_name of each entry, in listed order
ACCOUNTS == <<"eclipsed.by.you", "inkwisp", "ink_wisps">>

\* one entry of `log`: a remote call (op, how it ended, the file it names,
\* what it carried) or a send_message call (op = "notify", res = the message)
Call(op, res, f, info) == [op |-> op, res |-> res, file |-> f, info |-> info]

\* what requests.post(DROPBOX_TOKEN_URL) can do: raise, or return a response
TokenResponses ==
    {[net |-> "error", status |-> 0, body |-> ""]} \cup
    [net : {"ok"}, status : {200, 304, 401, 500},
     body : {"access_token", "no_access_token", "not_json"}]

\* a refresh that never looks at the status
raise_for_status_missing(status) == FALSE

\* r.raise_for_status() raises
raise_for_status(status) == status >= 400 /\ status < 600

\* refresh_dropbox_token: the access token, None, or the exception raised
refresh_dropbox_token(r) ==
    IF r.net = "error" THEN Raised("ConnectionError")
    ELSE IF raise_for_status(r.status) THEN Raised("HTTPError")
    ELSE IF r.body = "not_json" THEN Raised("JSONDecodeError")
    ELSE IF r.body = "access_token" THEN JStr("access_token")
    ELSE JNull

\* authenticate_dropbox: dropbox.Dropbox(oauth2_access_token=None) raises
authenticate_dropbox(r) ==
    LET access_token == refresh_dropbox_token(r)
    IN  IF access_token.t = "raise" THEN access_token
        ELSE IF access_token = JNull THEN Raised("BadInputException")
        ELSE JStr("dbx")

\* files_get_temporary_link(...).link: empty, or a link
TempLinks == {"", "https://dl/link"}

\* what requests.post(post_url) can do: raise, or return a response
ThreadsResponses ==
    {[net |-> "error", status |-> 0, text |-> ""]} \cup
    [net : {"ok"}, status : {200, 201, 400, 500}, text : {"response body"}]

\* the extension test on file.name as it is, not on its lowercased form
media_type_of_caseSensitive(f) ==
    IF endswith(f.name, video_exts) THEN "VIDEO" ELSE "IMAGE"

\* post_to_threads: media_type = "VIDEO" if name.endswith((".mp4", ".mov")) else "IMAGE"
media_type_of(f) ==
    IF endswith(lower(f.name), video_exts) THEN "VIDEO" ELSE "IMAGE"

\* post_to_threads: the form data of the request
post_data(f, cap, link) ==
    LET data == ("access_token" :> "threads_access_token") @@ ("text" :> cap)
    IN  IF link # ""
        THEN IF media_type_of(f) = "VIDEO"
             THEN data @@ ("video_url" :> link) @@ ("media_type" :> "VIDEO")
             ELSE data @@ ("image_url" :> link) @@ ("media_type" :> "IMAGE")
        ELSE data @@ ("media_type" :> "TEXT_POST")

\* a test that takes every 2xx status for a success
is_success_any2xx(status) == status >= 200 /\ status < 300

\* post_to_threads: res.status_code == 200
is_success(status) == status = 200

\* send_message: what can happen to the message
DeliveryOutcomes(bot) == IF bot THEN {"sent", "threw"} ELSE {"local"}

\* send_message never raises: the log after the call; the caller goes on
send_message(l, kind, f, info) == Append(l, Call("notify", kind, f, info))

(***************************************************************************)
(* The driver and run().                                                   *)
(***************************************************************************)
Init ==
    /\ pc = "main"
    /\ idx = 1
    /\ account_name = ""
    /\ telegram_bot = FALSE
    /\ env_token \in BOOLEAN
    /\ folder = <<>>
    /\ caption = JNull
    /\ dbx = FALSE
    /\ files = <<>>
    /\ file = NoFile
    /\ temp_link = ""
    /\ success = "unset"
    /\ err = ""
    /\ delivery = "none"
    /\ log = <<>>
    /\ completed = <<>>
    /\ caption_in = <<>>

\* for account in ACCOUNTS: uploader = DropboxToThreadsUploader(**account)
Construct ==
    /\ pc = "main"
    /\ idx <= Len(ACCOUNTS)
    /\ account_name' = ACCOUNTS[idx]
    /\ telegram_bot' = env_token
    /\ folder' = <<>>
    /\ caption' = JNull
    /\ dbx' = FALSE
    /\ files' = <<>>
    /\ file' = NoFile
    /\ temp_link' = ""
    /\ success' = "unset"
    /\ err' = ""
    /\ delivery' = "none"
    /\ log' = <<>>
    /\ caption_in' = <<>>
    /\ pc' = "run"
    /\ UNCHANGED <<idx, env_token, completed>>

\* the loop is over: the process ends
Exit ==
    /\ pc = "main"
    /\ idx > Len(ACCOUNTS)
    /\ pc' = "exit"
    /\ UNCHANGED <<idx, account_name, telegram_bot, env_token, folder, caption, dbx,
                   files, file, temp_link, success, err, delivery, log, completed,
                   caption_in>>

\* run(): the "run started" message, before the try block
\* `propagates` is whether send_message lets a delivery error out: this call
\* stands before the try block, so the error would leave run() and end the driver
RunStartedThen(propagates) ==
    /\ pc = "run"
    /\ log' = send_message(log, "started", <<>>, <<>>)
    /\ delivery' \in DeliveryOutcomes(telegram_bot)
    /\ pc' = IF propagates /\ delivery' = "threw" THEN "exit" ELSE "caption"
    /\ UNCHANGED <<idx, account_name, telegram_bot, env_token, folder, caption, dbx,
                   files, file, temp_link, success, err, completed, caption_in>>

\* a send_message without its try/except
RunStarted_propagating == RunStartedThen(TRUE)

\* self.send_message(...): send_message catches what delivery throws
RunStarted == RunStartedThen(FALSE)

\* caption = self.get_caption_from_config()
GetCaption ==
    /\ pc = "caption"
    /\ \E schedule \in ScheduleFiles(account_name), today \in Weekdays :
         /\ caption' = get_caption_from_config(account_name, schedule, today)
         /\ caption_in' = <<schedule, today>>
    /\ log' = Append(log, Call("caption", "returned", <<>>, <<>>))
    /\ pc' = "auth"
    /\ UNCHANGED <<idx, account_name, telegram_bot, env_token, folder, dbx, files,
                   file, temp_link, success, err, delivery, completed>>

\* dbx = self.authenticate_dropbox()
AuthenticateDropbox ==
    /\ pc = "auth"
    /\ \E r \in TokenResponses :
         LET got == authenticate_dropbox(r)
         IN  /\ log' = Append(log, Call("token", IF r.net = "error" THEN "raised"
                                                  ELSE "returned", <<>>,
                                         <<r.status, r.body>>))
             /\ IF got.t = "raise"
                THEN /\ err' = got.v
                     /\ pc' = "except"
                     /\ dbx' = FALSE
                ELSE /\ err' = err
                     /\ pc' = "list"
                     /\ dbx' = TRUE
    /\ caption_in' = <<>>
    /\ UNCHANGED <<idx, account_name, telegram_bot, env_token, folder, caption, files,
                   file, temp_link, success, delivery, completed>>

\* files = self.list_dropbox_files(dbx), the first look of the run at the remote
\* folder, and the test of `files`.  `empty_test` is what run() does about an
\* empty list before random.choice(files), which raises on one: "return" (the
\* message, then return), "none" (no test), "message" (the message, no return)
ListFilesThen(empty_test) ==
    /\ pc = "list"
    /\ \/ \* files_list_folder raises
          /\ log' = Append(log, Call("list", "raised", <<>>, <<>>))
          /\ err' = "ListError"
          /\ pc' = "except"
          /\ UNCHANGED <<folder, files, delivery>>
       \/ \* the folder has no eligible file
          /\ \E s \in Listings :
               /\ FilterEligible(Entries(s)) = <<>>
               /\ folder' = Entries(s)
          /\ files' = <<>>
          /\ IF empty_test = "none"
             THEN /\ log' = Append(log, Call("list", "returned", <<>>, <<>>))
                  /\ err' = "IndexError"
                  /\ pc' = "except"
                  /\ UNCHANGED delivery
             ELSE /\ log' = send_message(
                              Append(log, Call("list", "returned", <<>>, <<>>)),
                              "no_files", <<>>, <<>>)
                  /\ delivery' \in DeliveryOutcomes(telegram_bot)
                  /\ IF empty_test = "return"
                     THEN pc' = "finally" /\ UNCHANGED err
                     ELSE pc' = "except" /\ err' = "IndexError"
       \/ \* the folder has eligible files
          /\ \E s \in Listings :
               /\ FilterEligible(Entries(s)) # <<>>
               /\ folder' = Entries(s)
               /\ files' = FilterEligible(Entries(s))
          /\ log' = Append(log, Call("list", "returned", <<>>, <<>>))
          /\ pc' = "choice"
          /\ UNCHANGED <<err, delivery>>
    /\ UNCHANGED <<idx, account_name, telegram_bot, env_token, caption, dbx,
                   file, temp_link, success, completed, caption_in>>

\* a run() without the `if not files` test
ListFiles_noEmptyTest == ListFilesThen("none")

\* a run() that sends the "no files" message and forgets to return
ListFiles_noReturn == ListFilesThen("message")

\* if not files: the "no files" message and return
ListFiles == ListFilesThen("return")

\* file = random.choice(pool), and where run() goes on with it
ChooseThen(pool, next) ==
    /\ pc = "choice"
    /\ \E i \in 1..Len(pool) : file' = pool[i]
    /\ pc' = next
    /\ UNCHANGED <<idx, account_name, telegram_bot, env_token, folder, caption, dbx,
                   files, temp_link, success, err, delivery, log, completed, caption_in>>

\* a run() that picks among all the entries of the folder, not the eligible ones
Choose_unfiltered == ChooseThen(folder, "temp_link")

\* a run() that deletes the picked file before it posts it
Choose_deleteFirst == ChooseThen(files, "delete")

\* file = random.choice(files); success = self.post_to_threads(dbx, file, caption)
Choose == ChooseThen(files, "temp_link")

\* post_to_threads: temp_link = dbx.files_get_temporary_link(file.path_lower).link
\* `absorbed` is whether a failure is caught on the spot and the post goes on
\* without a link
GetTemporaryLinkThen(absorbed) ==
    /\ pc = "temp_link"
    /\ \/ /\ log' = Append(log, Call("temp_link", "raised", file.path_lower, <<>>))
          /\ IF absorbed
             THEN pc' = "relist" /\ UNCHANGED err
             ELSE pc' = "except" /\ err' = "TempLinkError"
          /\ UNCHANGED temp_link
       \/ \E link \in TempLinks :
            /\ temp_link' = link
            /\ log' = Append(log, Call("temp_link", "returned", file.path_lower, <<link>>))
            /\ pc' = "relist"
            /\ UNCHANGED err
    /\ UNCHANGED <<idx, account_name, telegram_bot, env_token, folder, caption, dbx,
                   files, file, success, delivery, completed, caption_in>>

\* a post_to_threads that catches the failure and posts text only
GetTemporaryLink_absorbed == GetTemporaryLinkThen(TRUE)

\* no try/except in post_to_threads: the failure leaves it
GetTemporaryLink == GetTemporaryLinkThen(FALSE)

\* post_to_threads: total_files = len(self.list_dropbox_files(dbx)), then the
\* "uploading" message
CountRemaining ==
    /\ pc = "relist"
    /\ \/ /\ log' = Append(log, Call("list", "raised", <<>>, <<>>))
          /\ err' = "ListError"
          /\ pc' = "except"
          /\ UNCHANGED delivery
       \/ /\ log' = send_message(Append(log, Call("list", "returned", <<>>, <<>>)),
                                 "uploading", file.name,
                                 <<media_type_of(file), Len(FilterEligible(folder))>>)
          /\ delivery' \in DeliveryOutcomes(telegram_bot)
          /\ pc' = "request"
          /\ UNCHANGED err
    /\ UNCHANGED <<idx, account_name, telegram_bot, env_token, folder, caption, dbx,
                   files, file, temp_link, success, completed, caption_in>>

\* post_to_threads: res = requests.post(post_url, data=data), the outcome message
\* and the return to run(); `on_failure` is where run() goes on after a False
PostRequestThen(on_failure) ==
    /\ pc = "request"
    /\ \E res \in ThreadsResponses :
         LET data == post_data(file, caption, temp_link)
         IN  IF res.net = "error"
             THEN /\ log' = Append(log, Call("publish", "raised", file.name,
                                              <<res.status, data, res.text>>))
                  /\ err' = "ConnectionError"
                  /\ pc' = "except"
                  /\ UNCHANGED <<success, delivery>>
             ELSE /\ delivery' \in DeliveryOutcomes(telegram_bot)
                  /\ UNCHANGED err
                  /\ IF is_success(res.status)
                     THEN /\ log' = send_message(
                                 Append(log, Call("publish", "returned", file.name,
                                                  <<res.status, data, res.text>>)),
                                 "posted", file.name, <<>>)
                          /\ success' = "true"
                          /\ pc' = "delete"
                     ELSE /\ log' = send_message(
                                 Append(log, Call("publish", "returned", file.name,
                                                  <<res.status, data, res.text>>)),
                                 "post_failed", file.name, <<res.text>>)
                          /\ success' = "false"
                          /\ pc' = on_failure
    /\ UNCHANGED <<idx, account_name, telegram_bot, env_token, folder, caption, dbx,
                   files, file, temp_link, completed, caption_in>>

\* a run() that deletes only what it managed to post
PostRequest_deleteOnSuccessOnly == PostRequestThen("finally")

\* success = self.post_to_threads(dbx, file, caption): the delete follows either way
PostRequest == PostRequestThen("delete")

\* dbx.files_delete_v2(file.path_lower) and its message; `guarded` is whether
\* the call stands in a try/except of its own
DeleteFileThen(guarded) ==
    /\ pc = "delete"
    /\ \/ /\ IF guarded
             THEN /\ log' = send_message(
                              Append(log, Call("delete", "raised", file.path_lower, <<>>)),
                              "delete_failed", file.name, <<"DeleteError">>)
                  /\ delivery' \in DeliveryOutcomes(telegram_bot)
                  /\ pc' = "finally"
                  /\ UNCHANGED err
             ELSE /\ log' = Append(log, Call("delete", "raised", file.path_lower, <<>>))
                  /\ err' = "DeleteError"
                  /\ pc' = "except"
                  /\ UNCHANGED delivery
          /\ UNCHANGED folder
       \/ /\ log' = send_message(
                       Append(log, Call("delete", "returned", file.path_lower, <<>>)),
                       "deleted", file.name, <<>>)
          /\ folder' = RemovePath(folder, file.path_lower)
          /\ delivery' \in DeliveryOutcomes(telegram_bot)
          /\ pc' = "finally"
          /\ UNCHANGED err
    /\ UNCHANGED <<idx, account_name, telegram_bot, env_token, caption, dbx, files,
                   file, temp_link, success, completed, caption_in>>

\* a delete without a try/except of its own: its failure reaches the outer except
DeleteFile_unguarded == DeleteFileThen(FALSE)

\* try: dbx.files_delete_v2(file.path_lower) ... except Exception: the warning
DeleteFile == DeleteFileThen(TRUE)

\* except Exception as e: the "script crashed" message
ExceptClause ==
    /\ pc = "except"
    /\ log' = send_message(log, "crashed", <<>>, <<err>>)
    /\ delivery' \in DeliveryOutcomes(telegram_bot)
    /\ pc' = "finally"
    /\ UNCHANGED <<idx, account_name, telegram_bot, env_token, folder, caption, dbx,
                   files, file, temp_link, success, err, completed, caption_in>>

\* whether the run's log holds a send_message call of this kind
Notified(l, kind) == \E i \in 1..Len(l) : l[i].op = "notify" /\ l[i].res = kind

\* finally: the "run complete" message; run() returns and the driver takes the
\* next account.  `skipped` is when the message is not sent, `propagates` when
\* run() ends by an exception that ends the driver
FinallyThen(skipped, propagates) ==
    /\ pc = "finally"
    /\ IF skipped
       THEN UNCHANGED <<log, delivery>>
       ELSE /\ log' = send_message(log, "run_complete", <<>>, <<>>)
            /\ delivery' \in DeliveryOutcomes(telegram_bot)
    /\ completed' = Append(completed, account_name)
    /\ IF propagates
       THEN pc' = "exit" /\ idx' = idx
       ELSE pc' = "main" /\ idx' = idx + 1
    /\ UNCHANGED <<account_name, telegram_bot, env_token, folder, caption, dbx, files,
                   file, temp_link, success, err, caption_in>>

\* the duration message written after the try statement instead of in finally:
\* the return of the empty-folder path skips it
FinallyClause_afterTry == FinallyThen(Notified(log, "no_files"), FALSE)

\* an except clause that notifies and raises again: the exception reaches the driver
FinallyClause_reraised == FinallyThen(FALSE, Notified(log, "crashed"))

\* finally: unconditional; except Exception swallowed whatever was raised
FinallyClause == FinallyThen(FALSE, FALSE)

Next ==
    \/ Construct
    \/ Exit
    \/ RunStarted
    \/ GetCaption
    \/ AuthenticateDropbox
    \/ ListFiles
    \/ Choose
    \/ GetTemporaryLink
    \/ CountRemaining
    \/ PostRequest
    \/ DeleteFile
    \/ ExceptClause
    \/ FinallyClause

Spec == Init /\ [][Next]_vars

\* every call of the sequential program returns or raises: the program never
\* stops between two statements
FairSpec == Spec /\ WF_vars(Next)

(***************************************************************************)
(* list_dropbox_files on its own: the filter applied to one folder         *)
(* listing, over a wider set of names than the runs above explore.         *)
(***************************************************************************)
MaxFilterLen == 3    \* longest listing the filter is applied to

FilterNames ==
    FileNames \cup
    { <<"e", ".", "J", "p", "e", "g">>,
      <<"f", ".", "j", "p", "g">>,
      <<"m", "p", "4">>,
      <<"g", ".", "p", "n", "g", "x">>,
      <<".", "M", "O", "V">> }

FilterListings ==
    { s \in UNION { [1..n -> FilterNames] : n \in 0..MaxFilterLen } :
        \A i, j \in 1..Len(s) : i # j => lower(s[i]) # lower(s[j]) }

\* an uploader about to call list_dropbox_files on some folder
InitFilter ==
    /\ pc = "filter"
    /\ idx = 1
    /\ account_name = ACCOUNTS[1]
    /\ telegram_bot = FALSE
    /\ env_token = FALSE
    /\ \E s \in FilterListings : folder = Entries(s)
    /\ caption = JNull
    /\ dbx = TRUE
    /\ files = <<>>
    /\ file = NoFile
    /\ temp_link = ""
    /\ success = "unset"
    /\ err = ""
    /\ delivery = "none"
    /\ log = <<>>
    /\ completed = <<>>
    /\ caption_in = <<>>

\* files = self.list_dropbox_files(dbx)
ApplyFilter ==
    /\ pc = "filter"
    /\ files' = FilterEligible(folder)
    /\ log' = Append(log, Call("list", "returned", <<>>, <<>>))
    /\ pc' = "filtered"
    /\ UNCHANGED <<idx, account_name, telegram_bot, env_token, folder, caption, dbx,
                   file, temp_link, success, err, delivery, completed, caption_in>>

NextFilter == ApplyFilter

FilterSpec == InitFilter /\ [][NextFilter]_vars

(***************************************************************************)
(* Vocabulary of the properties.                                           *)
(***************************************************************************)
\* positions in the log of the calls of one kind
Calls(op) == {i \in 1..Len(log) : log[i].op = op}

\* positions in the log of the send_message calls of one kind
Notes(kind) == {i \in 1..Len(log) : log[i].op = "notify" /\ log[i].res = kind}

\* positions of the publish requests that came back with an HTTP response
PublishResponses == {i \in Calls("publish") : log[i].res = "returned"}

\* run() of the account last constructed has returned
RunReturned == pc \in {"main", "exit"} /\ completed # <<>>

\* run() is in its finally clause or has returned
RunEnding == pc = "finally" \/ RunReturned

\* a file was selected by random.choice
Selected == file # NoFile

\* the selected file is still an entry of the remote folder
StillInFolder == \E i \in 1..Len(folder) : folder[i].path_lower = file.path_lower

\* the spec's terminal states, read off the run's log
CRASHED   == Notes("crashed") # {}
EMPTY_END == Notes("no_files") # {}
DONE      == Calls("delete") # {}

(***************************************************************************)
(* C1: in every run in which a file was selected, the selected file is     *)
(* gone from the source folder when the run ends, on every path after      *)
(* selection (temporary-link fetch, publish, the delete itself).           *)
(* The code does not do this: see C1_SelectedFileRemoved's trace.          *)
(***************************************************************************)
C1_SelectedFileRemoved == (RunReturned /\ Selected) => ~StillInFolder

(***************************************************************************)
(* C2: when the publish request returned an HTTP response (200 or not),    *)
(* the run issues exactly one delete call, for the selected file, after    *)
(* the response; no delete call is ever issued otherwise or twice.         *)
(***************************************************************************)
C2_OneDeleteAfterPublishResponse ==
    /\ Cardinality(Calls("delete")) <= 1
    /\ \A d \in Calls("delete") :
         /\ log[d].file = file.path_lower
         /\ \E p \in PublishResponses : p < d
    /\ (RunEnding /\ PublishResponses # {}) => Cardinality(Calls("delete")) = 1

C2_Witness ==
    /\ RunReturned
    /\ \E p \in PublishResponses : log[p].info[1] = 500
    /\ \E d \in Calls("delete") : log[d].file = file.path_lower

(***************************************************************************)
(* C3: a run whose eligible-file list is empty ends in EMPTY_END: one "no  *)
(* files" message, no temporary-link, publish or delete call, no crash     *)
(* message, and one final "run complete" message.                          *)
(***************************************************************************)
EmptyListing == \E i \in Calls("list") : log[i].res = "returned" /\ files = <<>>

C3_EmptyFolderEndsQuietly ==
    EmptyListing =>
        /\ RunEnding
        /\ Cardinality(Notes("no_files")) = 1
        /\ Calls("temp_link") = {}
        /\ Calls("publish") = {}
        /\ Calls("delete") = {}
        /\ Notes("crashed") = {}
        /\ Cardinality(Notes("run_complete")) = IF RunReturned THEN 1 ELSE 0

C3_Witness ==
    /\ RunReturned
    /\ EmptyListing
    /\ folder # <<>>
    /\ EMPTY_END

(***************************************************************************)
(* C4: when the token refresh fails (the request raises, the status is an  *)
(* error status, or the body is no JSON), the run goes straight to         *)
(* CRASHED: one crash message carrying the error, no list, publish or      *)
(* delete call, then one final "run complete" message.                     *)
(***************************************************************************)
\* the error a failed refresh raises, read off the token response in the log
RefreshError(e) ==
    IF e.res = "raised" THEN "ConnectionError"
    ELSE IF e.info[1] >= 400 THEN "HTTPError"
    ELSE IF e.info[2] = "not_json" THEN "JSONDecodeError"
    ELSE "none"

RefreshFailed == \E i \in Calls("token") : RefreshError(log[i]) # "none"

C4_RefreshFailureCrashes ==
    RefreshFailed =>
        /\ pc = "except" \/ RunEnding
        /\ Calls("list") = {}
        /\ Calls("temp_link") = {}
        /\ Calls("publish") = {}
        /\ Calls("delete") = {}
        /\ Cardinality(Notes("crashed")) = IF pc = "except" THEN 0 ELSE 1
        /\ \A c \in Notes("crashed") :
             \A i \in Calls("token") : log[c].info = <<RefreshError(log[i])>>
        /\ Cardinality(Notes("run_complete")) = IF RunReturned THEN 1 ELSE 0
        /\ \A c \in Notes("crashed"), f \in Notes("run_complete") : c < f

C4_Witness ==
    /\ RunReturned
    /\ \E i \in Calls("token") : log[i].res = "returned" /\ log[i].info[1] = 401
    /\ CRASHED
    /\ Notes("run_complete") # {}

(***************************************************************************)
(* C5: every run, whatever its path and whatever send_message met, goes on *)
(* until it has issued its one "run complete" message, which is the last   *)
(* thing the run does.                                                     *)
(***************************************************************************)
C5_FinalMessageOnceAndLast ==
    /\ Cardinality(Notes("run_complete")) = IF RunReturned THEN 1 ELSE 0
    /\ RunReturned => Len(log) \in Notes("run_complete")
    /\ pc # "exit" => ENABLED Next

C5_Witness ==
    /\ RunReturned
    /\ CRASHED
    /\ delivery = "threw"
    /\ Len(log) \in Notes("run_complete")

(***************************************************************************)
(* C6: only failures before the file selection take a run to CRASHED;      *)
(* a failure after the selection never produces CRASHED or a crash         *)
(* message.  The code does not do this: see the trace.                     *)
(***************************************************************************)
C6_NoCrashAfterSelection == Selected => (pc # "except" /\ ~CRASHED)

(***************************************************************************)
(* C7: the publisher sends one request and never raises: once the request  *)
(* was sent, the workflow holds a result, successful exactly when the      *)
(* status was 200, and is not in its except clause.  The code does not do  *)
(* this when the request itself raises: see the trace.                     *)
(***************************************************************************)
C7_PublisherReturnsResult ==
    /\ Cardinality(Calls("publish")) <= 1
    /\ \A p \in Calls("publish") :
         /\ success \in {"true", "false"}
         /\ success = "true" <=> (log[p].res = "returned" /\ log[p].info[1] = 200)
         /\ pc # "except"
         /\ ~CRASHED

(***************************************************************************)
(* C8: the driver runs one workflow per account, in listed order, each to  *)
(* its "run complete" message before the next account's first action; a   *)
(* crash of one workflow does not keep the later ones from running, and    *)
(* the process ends only when all of them have run.                        *)
(***************************************************************************)
C8_AllAccountsInOrder ==
    /\ [](/\ Len(completed) = idx - 1
          /\ completed = SubSeq(ACCOUNTS, 1, Len(completed))
          /\ pc \notin {"main", "exit"} =>
                (idx <= Len(ACCOUNTS) /\ account_name = ACCOUNTS[idx])
          /\ (pc = "main" /\ idx <= Len(ACCOUNTS)) => ENABLED Construct
          /\ pc = "exit" => completed = ACCOUNTS)
    /\ [][ (account_name' # account_name \/ log' = <<>>) =>
              /\ account_name' = ACCOUNTS[Len(completed) + 1]
              /\ completed' = completed
              /\ completed # <<>> =>
                    /\ account_name = completed[Len(completed)]
                    /\ Len(log) \in Notes("run_complete") ]_vars

\* the first account's run crashed and returned; the driver takes the second
C8_Witness ==
    /\ pc = "main"
    /\ completed = <<ACCOUNTS[1]>>
    /\ CRASHED
    /\ Len(log) \in Notes("run_complete")
    /\ ENABLED Construct

(***************************************************************************)
(* C9: the publish request carries media_type VIDEO and the link under     *)
(* video_url when a link is present and the lowercased name ends in .mp4   *)
(* or .mov; IMAGE and the link under image_url when a link is present and  *)
(* it does not; TEXT_POST and neither field when there is no link.         *)
(***************************************************************************)
IsVideoName(n) ==
    \/ endswith1(lower(n), <<".", "m", "p", "4">>)
    \/ endswith1(lower(n), <<".", "m", "o", "v">>)

C9_MediaKindOfRequest ==
    \A p \in Calls("publish") :
        LET data == log[p].info[2]
            has(k) == k \in DOMAIN data
        IN  /\ has("media_type")
            /\ (temp_link # "" /\ IsVideoName(file.name)) =>
                  /\ data["media_type"] = "VIDEO"
                  /\ has("video_url") /\ data["video_url"] = temp_link
                  /\ ~has("image_url")
            /\ (temp_link # "" /\ ~IsVideoName(file.name)) =>
                  /\ data["media_type"] = "IMAGE"
                  /\ has("image_url") /\ data["image_url"] = temp_link
                  /\ ~has("video_url")
            /\ temp_link = "" =>
                  /\ data["media_type"] = "TEXT_POST"
                  /\ ~has("video_url")
                  /\ ~has("image_url")

C9_Witness ==
    \E p \in Calls("publish") :
        /\ file.name = <<"a", ".", "M", "P", "4">>
        /\ temp_link # ""
        /\ log[p].info[2]["media_type"] = "VIDEO"

(***************************************************************************)
(* C10: caption resolution never raises; it returns the caption string the *)
(* table defines for the account and today's weekday, and the default      *)
(* caption with the account name in every other condition.  The code does  *)
(* not do this for a "caption" entry that is no string: see the trace.     *)
(***************************************************************************)
\* the table defines a caption (a string) for the account and the weekday
DefinedCaption(schedule, name, today) ==
    /\ schedule.t = "dict"
    /\ name \in DOMAIN schedule.v
    /\ schedule.v[name].t = "dict"
    /\ today \in DOMAIN schedule.v[name].v
    /\ schedule.v[name].v[today].t = "dict"
    /\ "caption" \in DOMAIN schedule.v[name].v[today].v
    /\ schedule.v[name].v[today].v["caption"].t = "str"

C10_CaptionOrDefault ==
    caption_in # <<>> =>
        LET schedule == caption_in[1]
            today    == caption_in[2]
        IN  /\ caption.t # "raise"
            /\ caption = IF DefinedCaption(schedule, account_name, today)
                         THEN schedule.v[account_name].v[today].v["caption"]
                         ELSE DefaultCaption(account_name)

(***************************************************************************)
(* C11: the eligible-file filter keeps exactly the entries whose           *)
(* lowercased name ends in .mp4, .mov, .jpg, .jpeg or .png, in the order   *)
(* of the listing, adding and reordering nothing.                          *)
(***************************************************************************)
IsEligibleName(n) ==
    \/ endswith1(lower(n), <<".", "m", "p", "4">>)
    \/ endswith1(lower(n), <<".", "m", "o", "v">>)
    \/ endswith1(lower(n), <<".", "j", "p", "g">>)
    \/ endswith1(lower(n), <<".", "j", "p", "e", "g">>)
    \/ endswith1(lower(n), <<".", "p", "n", "g">>)

\* positions of the listing that hold an eligible entry
KeptPositions == {i \in 1..Len(folder) : IsEligibleName(folder[i].name)}

\* the k-th of them, in listing order
KthKept(k) == CHOOSE i \in KeptPositions : Cardinality({j \in KeptPositions : j <= i}) = k

C11_FilterKeepsEligibleInOrder ==
    pc = "filtered" =>
        /\ Len(files) = Cardinality(KeptPositions)
        /\ \A k \in 1..Len(files) : files[k] = folder[KthKept(k)]

C11_Witness ==
    /\ pc = "filtered"
    /\ Len(folder) = 3
    /\ folder[1].name = <<"c", ".", "t", "x", "t">>
    /\ folder[2].name = <<"b", ".", "P", "N", "G">>
    /\ folder[3].name = <<"a", ".", "M", "P", "4">>
    /\ files = <<folder[2], folder[3]>>


(***************************************************************************)
(* C12: within one run the remote actions occur only in the order resolve  *)
(* caption, refresh token, list files, select file, get temporary link,    *)
(* list files again (the count for the "uploading" message), publish,      *)
(* delete, final message; no publish request without a successful token    *)
(* refresh and a non-empty listing before it, the temporary link of the    *)
(* selected file is fetched before the publish request, and no delete is   *)
(* issued before the publish step has returned.                            *)
(* C12_RemoteActionsInOrder states the order without the second listing,   *)
(* which the code does not keep.                                           *)
(***************************************************************************)
\* positions in the log of the remote actions and of the final message
RemoteActions ==
    {i \in 1..Len(log) : log[i].op # "notify" \/ log[i].res = "run_complete"}

\* the place of log[i] in the order the claim names: 1 caption, 2 token,
\* 3 list, 4 select (no call), 5 temporary link, 7 publish, 8 delete, 9 final
StageNamed(i) ==
    CASE log[i].op = "caption"   -> 1
      [] log[i].op = "token"     -> 2
      [] log[i].op = "list"      -> 3
      [] log[i].op = "temp_link" -> 5
      [] log[i].op = "publish"   -> 7
      [] log[i].op = "delete"    -> 8
      [] log[i].op = "notify"    -> 9

\* the same with place 6 for a listing that follows the temporary-link call
StageWithRecount(i) ==
    IF log[i].op = "list" /\ \E t \in Calls("temp_link") : t < i
    THEN 6
    ELSE StageNamed(i)

\* the remote actions stand in the log in strictly rising places
InStageOrder(stage(_)) ==
    \A i, j \in RemoteActions : i < j => stage(i) < stage(j)

\* the selection stands between the first listing and the temporary-link call
SelectionInOrder ==
    /\ Selected =>
         \E l \in Calls("list") :
             /\ log[l].res = "returned"
             /\ \A t \in Calls("temp_link") : l < t
    /\ \A t \in Calls("temp_link") : Selected /\ log[t].file = file.path_lower

PublishPreconditions ==
    \A p \in Calls("publish") :
        /\ \E t \in Calls("token") :
             /\ t < p
             /\ log[t].res = "returned"
             /\ log[t].info[1] < 400
             /\ log[t].info[2] = "access_token"
        /\ \E l \in Calls("list") :
             /\ l < p
             /\ log[l].res = "returned"
             /\ files # <<>>
             /\ \A t \in Calls("temp_link") : l < t
        /\ \E t \in Calls("temp_link") :
             /\ t < p
             /\ log[t].res = "returned"
             /\ log[t].file = file.path_lower

DeleteAfterPublishReturned ==
    \A d \in Calls("delete") :
        \E p \in Calls("publish") :
            /\ p < d
            /\ log[p].res = "returned"
            /\ \E n \in Notes("posted") \cup Notes("post_failed") : p < n /\ n < d

C12_RemoteActionsInOrder ==
    /\ InStageOrder(StageNamed)
    /\ SelectionInOrder
    /\ PublishPreconditions
    /\ DeleteAfterPublishReturned

C12_RemoteActionsInOrderWithRecount ==
    /\ InStageOrder(StageWithRecount)
    /\ SelectionInOrder
    /\ PublishPreconditions
    /\ DeleteAfterPublishReturned

C12_Witness ==
    /\ RunReturned
    /\ Len(log) = 12
    /\ [i \in 1..12 |-> log[i].op] =
         <<"notify", "caption", "token", "list", "temp_link", "list", "notify",
           "publish", "notify", "delete", "notify", "notify">>
    /\ \A i \in RemoteActions : log[i].op = "notify" \/ log[i].res = "returned"


(***************************************************************************)
(* C13: when the delete of the selected file fails, the failure is caught: *)
(* exactly one warning message about the failed delete, no crash message,  *)
(* the run does not enter its except clause, and it still ends through the *)
(* delete step (DONE) with its one final "run complete" message.           *)
(***************************************************************************)
DeleteFailed == \E d \in Calls("delete") : log[d].res = "raised"

C13_DeleteFailureIsCaught ==
    DeleteFailed =>
        /\ RunEnding
        /\ pc # "except"
        /\ err = ""
        /\ Cardinality(Notes("delete_failed")) = 1
        /\ \A d \in Calls("delete"), w \in Notes("delete_failed") :
             /\ w = d + 1
             /\ log[w].file = file.name
        /\ Notes("deleted") = {}
        /\ ~CRASHED
        /\ DONE /\ ~EMPTY_END
        /\ Cardinality(Notes("run_complete")) = IF RunReturned THEN 1 ELSE 0
        /\ RunReturned => Len(log) \in Notes("run_complete")

C13_Witness ==
    /\ RunReturned
    /\ DeleteFailed
    /\ StillInFolder
    /\ Notes("delete_failed") # {}
    /\ Len(log) \in Notes("run_complete")


(***************************************************************************)
(* C14: send_message never lets a failure reach the workflow: a message of *)
(* an account without a bot is logged locally, never delivered; whatever   *)
(* the delivery met (sent, threw, logged locally), no error is recorded    *)
(* and the workflow goes on at the step that follows that message, the     *)
(* same step as after a delivery that succeeded.                           *)
(***************************************************************************)
\* the step of run() and of the driver that follows each message
StepAfter(kind) ==
    CASE kind = "started"       -> "caption"
      [] kind = "no_files"      -> "finally"
      [] kind = "uploading"     -> "request"
      [] kind = "posted"        -> "delete"
      [] kind = "post_failed"   -> "delete"
      [] kind = "deleted"       -> "finally"
      [] kind = "delete_failed" -> "finally"
      [] kind = "crashed"       -> "finally"
      [] kind = "run_complete"  -> "main"

\* this step ended with a send_message call
MessageSent == Len(log') > Len(log) /\ log'[Len(log')].op = "notify"

C14_NotifierNeverPropagates ==
    [][ MessageSent =>
          /\ telegram_bot  => delivery' \in {"sent", "threw"}
          /\ ~telegram_bot => delivery' = "local"
          /\ pc' = StepAfter(log'[Len(log')].res)
          /\ err' = err ]_vars

C14_Witness ==
    /\ delivery = "threw"
    /\ pc = "caption"
    /\ Len(log) \in Notes("started")


(***************************************************************************)
(* C15: a run acts on at most one media file: at most one temporary-link   *)
(* call, one publish request and one delete call, all naming the selected  *)
(* file (the storage calls by its path, the request by its name), which is *)
(* a member of the eligible list the run's folder listing returned; none   *)
(* of these calls when that list is empty.                                 *)
(***************************************************************************)
FileCalls == Calls("temp_link") \cup Calls("publish") \cup Calls("delete")

IsMember(f, list) == \E i \in 1..Len(list) : list[i] = f

C15_AtMostOneFilePerRun ==
    /\ Cardinality(Calls("temp_link")) <= 1
    /\ Cardinality(Calls("publish")) <= 1
    /\ Cardinality(Calls("delete")) <= 1
    /\ \A c \in FileCalls :
         log[c].file = IF log[c].op = "publish" THEN file.name ELSE file.path_lower
    /\ FileCalls # {} => IsMember(file, files) /\ IsEligibleName(file.name)
    /\ files = <<>> => FileCalls = {}

C15_Witness ==
    /\ RunReturned
    /\ Len(files) = 2
    /\ Len(folder) = 1
    /\ file = files[2]
    /\ Cardinality(FileCalls) = 3


(***************************************************************************)
(* C16: every run ends in exactly one of DONE, EMPTY_END and CRASHED: when *)
(* run() has returned, exactly one of a "no files" message, a crash        *)
(* message, and a delete attempt reported as deleted or delete-failed is   *)
(* in its log, and at no time are two of them.                             *)
(***************************************************************************)
DeleteReported == Notes("deleted") \cup Notes("delete_failed") # {}

OutcomesObserved ==
    (IF EMPTY_END THEN 1 ELSE 0) + (IF CRASHED THEN 1 ELSE 0)
        + (IF DeleteReported THEN 1 ELSE 0)

C16_ExactlyOneOutcome ==
    /\ OutcomesObserved <= 1
    /\ RunReturned => OutcomesObserved = 1
    /\ DeleteReported <=> (DONE /\ pc # "except")
    /\ Cardinality(Notes("no_files")) <= 1
    /\ Cardinality(Notes("crashed")) <= 1
    /\ Cardinality(Notes("deleted") \cup Notes("delete_failed")) <= 1

C16_Witness ==
    /\ RunReturned
    /\ Notes("deleted") # {}
    /\ ~StillInFolder
    /\ OutcomesObserved = 1


(***************************************************************************)
(* C17: for each HTTP response to the publish request exactly one outcome  *)
(* message is issued, right after the response and before the delete       *)
(* attempt: the success message if and only if the status was 200,         *)
(* otherwise the failure message, which carries the response body.         *)
(***************************************************************************)
OutcomeNotes == Notes("posted") \cup Notes("post_failed")

C17_PublishOutcomeNotified ==
    /\ Cardinality(OutcomeNotes) = Cardinality(PublishResponses)
    /\ \A n \in OutcomeNotes : n - 1 \in PublishResponses
    /\ \A p \in PublishResponses :
         /\ p + 1 \in OutcomeNotes
         /\ log[p + 1].file = file.name
         /\ log[p + 1].res = "posted" <=> log[p].info[1] = 200
         /\ log[p + 1].res = "post_failed" => log[p + 1].info = <<log[p].info[3]>>
         /\ \A d \in Calls("delete") : p + 1 < d

C17_Witness ==
    /\ pc = "delete"
    /\ \E p \in PublishResponses :
         /\ log[p].info[1] = 201
         /\ log[p + 1].res = "post_failed"
         /\ log[p + 1].info = <<"response body">>


(***************************************************************************)
(* C18: the token refresh fails for every response of the token endpoint   *)
(* whose status is not 2xx, and the error reaches the workflow unmodified  *)
(* (the crash message carries it); a run holds a storage session and       *)
(* issues a list call only after a 2xx token response.  The code does not  *)
(* do this for a status below 400 that is not 2xx: see the trace.          *)
(***************************************************************************)
Is2xx(status) == status >= 200 /\ status < 300

C18_RefreshFailsOnNon2xx ==
    \A t \in Calls("token") :
        /\ (log[t].res = "raised" \/ ~Is2xx(log[t].info[1])) =>
              /\ ~dbx
              /\ Calls("list") = {}
              /\ pc = "except" \/ RunEnding
              /\ pc = "except" => err = RefreshError(log[t])
              /\ \A c \in Notes("crashed") : log[c].info = <<RefreshError(log[t])>>
        /\ (dbx \/ Calls("list") # {}) =>
              log[t].res = "returned" /\ Is2xx(log[t].info[1])


(***************************************************************************)
(* C19: after the selection the publish step fetches the temporary link    *)
(* and then lists the folder a second time before it sends the request;    *)
(* when either call fails, no publish request and no delete call is        *)
(* issued in that run, the selected file stays in the folder, and the run  *)
(* ends with one crash message and the final "run complete" message.       *)
(***************************************************************************)
\* the listings made after the temporary-link call
SecondListings == {l \in Calls("list") : \E t \in Calls("temp_link") : t < l}

LinkOrRecountFailed ==
    \/ \E t \in Calls("temp_link") : log[t].res = "raised"
    \/ \E l \in SecondListings : log[l].res = "raised"

C19_LinkOrRecountFailureCrashes ==
    /\ \A l \in SecondListings :
         \E t \in Calls("temp_link") : t = l - 1 /\ log[t].res = "returned"
    /\ \A p \in Calls("publish") :
         /\ \E t \in Calls("temp_link") : t < p /\ log[t].res = "returned"
         /\ \E l \in SecondListings : l < p /\ log[l].res = "returned"
    /\ LinkOrRecountFailed =>
         /\ Selected
         /\ Calls("publish") = {}
         /\ Calls("delete") = {}
         /\ StillInFolder
         /\ pc = "except" \/ RunEnding
         /\ Cardinality(Notes("crashed")) = IF pc = "except" THEN 0 ELSE 1
         /\ Cardinality(Notes("run_complete")) = IF RunReturned THEN 1 ELSE 0
         /\ \A c \in Notes("crashed"), f \in Notes("run_complete") : c < f

C19_Witness ==
    /\ RunReturned
    /\ \E l \in SecondListings : log[l].res = "raised"
    /\ StillInFolder
    /\ CRASHED
    /\ Len(log) \in Notes("run_complete")

====
